---- MODULE Spec2Model ----
(***************************************************************************)
(* A model of the near-Earth-object database: the loaders of extract.py,   *)
(* the entity constructors of models.py, the NEODatabase constructor,      *)
(* lookups and query generator of database.py, and create_filters and      *)
(* limit of filters.py.                                                    *)
(*                                                                         *)
(* Encoding of Python values:                                              *)
(*   None is the empty tuple and a value v that may also be None is the    *)
(*   one-element tuple <<v>>;                                              *)
(*   a float is an integer number of tenths, NaN is a separate number on   *)
(*   which every comparison is false;                                      *)
(*   a datetime is a number of minutes, its date() the number of whole     *)
(*   days in it;                                                           *)
(*   an object reference is the index of the object in the list that       *)
(*   load_neos / load_approaches returned.                                 *)
(***************************************************************************)
EXTENDS FiniteSets, Integers, Sequences, TLC

\* ---------------------------------------------------------------- bounds
MaxNeos == 2
MaxCAs == 2
MaxFilters == 2
MaxLimit == 2

\* ------------------------------------------------------- Python values
None == <<>>
Some(x) == <<x>>
NaN == -1
MinutesPerDay == 1440
\* bool is a subclass of int: False == 0 and True == 1
False == 0
True == 1
Bool(b) == IF b THEN True ELSE False
\* bool(x) of a value that may be None: None, 0, 0.0 and False are falsy
\* (a date is never falsy: day numbers start at 1)
Truthy(x) == x # None /\ x[1] # 0

\* str(x): the designation is stored as str(info.get("designation"))
Str(x) == IF x = None THEN "None" ELSE x[1]

\* float(x) of a numeric string; None stands for the raised ValueError/TypeError
FloatOfStr(s) ==
    CASE s = "0.0" -> Some(0)
      [] s = "0.5" -> Some(5)
      [] s = "1.0" -> Some(10)
      [] s = "2.0" -> Some(20)
      [] OTHER -> None

\* helpers.cd_to_datetime: NASA calendar date string to datetime (minutes);
\* None stands for the raised ValueError
cd_to_datetime(s) ==
    CASE s = "2020-Jan-01 12:30" -> Some(1 * MinutesPerDay + 750)
      [] s = "2020-Jan-01 23:59" -> Some(1 * MinutesPerDay + 1439)
      [] s = "2020-Jan-02 00:15" -> Some(2 * MinutesPerDay + 15)
      [] OTHER -> None

\* ------------------------------------------------------------- models.py
NearEarthObjectZeroDiameter(info) ==
    [ approaches  |-> <<>>,
      designation |-> Str(info.designation),
      name        |-> info.name,
      diameter    |-> IF info.diameter = None THEN 0 ELSE info.diameter[1],
      hazardous   |-> info.hazardous ]

\* NearEarthObject.__init__(**info); info fields are Python values (or None)
NearEarthObject(info) ==
    [ approaches  |-> <<>>,
      designation |-> Str(info.designation),
      name        |-> info.name,
      diameter    |-> IF info.diameter = None THEN NaN ELSE info.diameter[1],
      hazardous   |-> info.hazardous ]

\* NearEarthObject.fullname; a name of None or '' is falsy
fullname(neo) ==
    IF neo.name # None /\ neo.name[1] # ""
    THEN neo.designation \o " (" \o neo.name[1] \o ")"
    ELSE neo.designation

\* CloseApproach.__init__(**data); pdes/time/distance/velocity as in the JSON
CloseApproach(data) ==
    [ designation |-> Str(data.pdes),
      time        |-> cd_to_datetime(data.time),
      distance    |-> IF FloatOfStr(data.distance) = None THEN 0
                      ELSE FloatOfStr(data.distance)[1],
      velocity    |-> IF FloatOfStr(data.velocity) = None THEN 0
                      ELSE FloatOfStr(data.velocity)[1],
      neo         |-> data.neos ]

\* ------------------------------------------------------------ extract.py
create_neo(a, b, c, d) ==
    NearEarthObject([designation |-> Some(a), name |-> b,
                     diameter |-> Some(c), hazardous |-> Some(d)])

create_ca(a, b, c, d, e) ==
    CloseApproach([pdes |-> Some(a), time |-> b, distance |-> c,
                   velocity |-> d, neos |-> e])

\* dict.get(k) and d[k] = v on pdes_dict
DictGet(d, k) == IF k \in DOMAIN d THEN Some(d[k]) ELSE None
DictPut(d, k, v) == [x \in (DOMAIN d) \cup {k} |-> IF x = k THEN v ELSE d[x]]

\* one row of the CSV file, as load_neos turns it into create_neo's arguments
NeoOfRow(elem) ==
    create_neo(IF elem.pdes = "" THEN "nan" ELSE elem.pdes,
               IF elem.name = "" THEN None ELSE Some(elem.name),
               IF elem.diameter = "" THEN NaN ELSE FloatOfStr(elem.diameter)[1],
               Bool(elem.pha = "Y"))

RowPdes(elem) == IF elem.pdes = "" THEN "nan" ELSE elem.pdes

\* load_neos: the list of NearEarthObjects, and pdes_dict after the call
RECURSIVE LoadNeosList(_)
LoadNeosList(rows) ==
    IF rows = <<>> THEN <<>>
    ELSE Append(LoadNeosList(SubSeq(rows, 1, Len(rows) - 1)),
                NeoOfRow(rows[Len(rows)]))

RECURSIVE LoadNeosDict(_, _, _)
LoadNeosDict(rows, i, d) ==
    IF i > Len(rows) THEN d
    ELSE LoadNeosDict(rows, i + 1, DictPut(d, RowPdes(rows[i]), i))

\* load_approaches: one CloseApproach per entry of json_data['data']
RECURSIVE LoadApproachesList(_, _)
LoadApproachesList(data, d) ==
    IF data = <<>> THEN <<>>
    ELSE LET key == data[Len(data)]
         IN  Append(LoadApproachesList(SubSeq(data, 1, Len(data) - 1), d),
                    create_ca(key.des, key.cd, key.dist, key.v_rel,
                              DictGet(d, key.des)))

\* ------------------------------------------------- the files being loaded
\* rows of the CSV file: two objects whose designations differ in case only, a
\* named hazardous one with a diameter and unnamed ones without
NeoRows ==
    { [pdes |-> "a1", name |-> "Eros", diameter |-> "2.0", pha |-> "Y"],
      [pdes |-> "a1", name |-> "",     diameter |-> "",    pha |-> "N"],
      [pdes |-> "A1", name |-> "",     diameter |-> "",    pha |-> "N"] }

\* entries of json_data['data']: designation, time, distance and velocity
CARows ==
    { [des |-> "a1", cd |-> "2020-Jan-01 23:59", dist |-> "0.0", v_rel |-> "1.0"],
      [des |-> "a1", cd |-> "2020-Jan-02 00:15", dist |-> "0.5", v_rel |-> "2.0"],
      [des |-> "A1", cd |-> "2020-Jan-01 23:59", dist |-> "0.0", v_rel |-> "1.0"] }

SeqsUpTo(S, n) == UNION { [1..k -> S] : k \in 0..n }

\* ------------------------------------------------------------------ state
VARIABLES
    neos,          \* the list load_neos returned (its index is the object)
    approaches,    \* the list load_approaches returned
    pdes_dict,     \* extract.pdes_dict
    loaded,        \* which loaders have run
    db,            \* the NEODatabase: status, _neos, _approaches
    ret,           \* the last lookup: its method, argument and returned value
    queries,       \* the last create_filters call: its criteria and result
    gen,           \* the generator query(filters) returned
    lim,           \* the generator limit(gen, n) returned
    abandoned      \* history: a query was let go before it was exhausted

vars ==
    <<neos, approaches, pdes_dict, loaded, db, ret, queries, gen, lim,
      abandoned>>

\* --------------------------------------------------------------- database.py
PrependApproach(ns, o, a) ==
    [ns EXCEPT ![o].approaches = <<a>> \o @]

\* list.append on values.neo.approaches
AppendApproach(ns, o, a) ==
    [ns EXCEPT ![o].approaches = Append(@, a)]

\* the loop of NEODatabase.__init__ from approach i on: the objects after the
\* loop, and whether values.neo.approaches raised AttributeError on a None
RECURSIVE LinkLoop(_, _, _)
LinkLoop(ns, cas, i) ==
    IF i > Len(cas) THEN [neos |-> ns, raised |-> FALSE]
    ELSE IF cas[i].neo = None THEN [neos |-> ns, raised |-> TRUE]
    ELSE LinkLoop(AppendApproach(ns, cas[i].neo[1], i), cas, i + 1)

Lower(s) == IF s = "A1" THEN "a1" ELSE s

RECURSIVE get_neo_by_designation_nocase(_, _, _)
get_neo_by_designation_nocase(ns, i, designation) ==
    IF i > Len(ns) THEN None
    ELSE IF Lower(ns[i].designation) = Lower(designation) THEN Some(i)
    ELSE get_neo_by_designation_nocase(ns, i + 1, designation)

\* get_neo_by_designation / get_neo_by_name over self._neos from object i on:
\* the first object that matches, or None
RECURSIVE get_neo_by_designation(_, _, _)
get_neo_by_designation(ns, i, designation) ==
    IF i > Len(ns) THEN None
    ELSE IF ns[i].designation = designation THEN Some(i)
    ELSE get_neo_by_designation(ns, i + 1, designation)

RECURSIVE get_neo_by_name(_, _, _)
get_neo_by_name(ns, i, name) ==
    IF i > Len(ns) THEN None
    ELSE IF ns[i].name = name THEN Some(i)
    ELSE get_neo_by_name(ns, i + 1, name)

\* ---------------------------------------------------------------- filters.py
\* a filter is [kind, op, value]: the subclass of AttributeFilter, the name of
\* the operator function and the reference value
Filter(kind, op, value) == [kind |-> kind, op |-> op, value |-> value]

\* <Kind>Filter.get(approach): the attribute, or None for the AttributeError
\* raised on approach.time.date() / approach.neo.<attr> of a None
FilterGet(kind, ns, a) ==
    CASE kind = "Date" ->
            IF a.time = None THEN None ELSE Some(a.time[1] \div MinutesPerDay)
      [] kind = "Distance" -> Some(a.distance)
      [] kind = "Velocity" -> Some(a.velocity)
      [] kind = "Diameter" ->
            IF a.neo = None THEN None ELSE Some(ns[a.neo[1]].diameter)
      [] kind = "Hazard" ->
            IF a.neo = None \/ ns[a.neo[1]].hazardous = None THEN None
            ELSE Some(ns[a.neo[1]].hazardous[1])

\* operator.eq / operator.ge / operator.le; every comparison with NaN is false
Compare(op, x, y) ==
    /\ x # NaN
    /\ y # NaN
    /\ CASE op = "eq" -> x = y
         [] op = "ge" -> x >= y
         [] op = "le" -> x <= y

\* AttributeFilter.__call__: "raise", or the truth value of op(get(a), value)
FilterCall(f, ns, a) ==
    IF FilterGet(f.kind, ns, a) = None THEN "raise"
    ELSE IF Compare(f.op, FilterGet(f.kind, ns, a)[1], f.value) THEN "true"
    ELSE "false"

\* one conditional append of create_filters
AppendIf(qs, supplied, f) == IF supplied THEN Append(qs, f) ELSE qs

\* the test create_filters makes before appending a criterion's filter
Supplied(x) == Truthy(x)

Value(x) == IF x = None THEN 0 ELSE x[1]

create_filters(c) ==
    LET q1  == AppendIf(<<>>, Supplied(c.date),
                        Filter("Date", "eq", Value(c.date)))
        q2  == AppendIf(q1, Supplied(c.start_date),
                        Filter("Date", "ge", Value(c.start_date)))
        q3  == AppendIf(q2, Supplied(c.end_date),
                        Filter("Date", "le", Value(c.end_date)))
        q4  == AppendIf(q3, Supplied(c.distance_min),
                        Filter("Distance", "ge", Value(c.distance_min)))
        q5  == AppendIf(q4, Supplied(c.distance_max),
                        Filter("Distance", "le", Value(c.distance_max)))
        q6  == AppendIf(q5, Supplied(c.velocity_min),
                        Filter("Velocity", "ge", Value(c.velocity_min)))
        q7  == AppendIf(q6, Supplied(c.velocity_max),
                        Filter("Velocity", "le", Value(c.velocity_max)))
        q8  == AppendIf(q7, Supplied(c.diameter_min),
                        Filter("Diameter", "ge", Value(c.diameter_min)))
        q9  == AppendIf(q8, Supplied(c.diameter_max),
                        Filter("Diameter", "le", Value(c.diameter_max)))
        q10 == AppendIf(q9, Supplied(c.hazardous),
                        Filter("Hazard", "eq", Value(c.hazardous)))
    IN  q10

\* ------------------------------------------------------- NEODatabase.query
RECURSIVE AnyFilters(_, _, _, _)
AnyFilters(fs, k, ns, a) ==
    IF k > Len(fs) THEN "false"
    ELSE IF FilterCall(fs[k], ns, a) = "false" THEN AnyFilters(fs, k + 1, ns, a)
    ELSE FilterCall(fs[k], ns, a)

\* all(map(lambda f: f(approach), filters)) from filter k on: all() stops at
\* the first false value, and a raising filter ends it with the exception
RECURSIVE AllFilters(_, _, _, _)
AllFilters(fs, k, ns, a) ==
    IF k > Len(fs) THEN "true"
    ELSE IF FilterCall(fs[k], ns, a) = "true" THEN AllFilters(fs, k + 1, ns, a)
    ELSE FilterCall(fs[k], ns, a)

QueryTestNoDefault(fs, ns, a) ==
    IF fs # <<>> THEN AllFilters(fs, 1, ns, a) ELSE "false"

\* whether query yields approach a under filters fs ("true" / "false" / "raise")
QueryTest(fs, ns, a) == IF fs # <<>> THEN AllFilters(fs, 1, ns, a) ELSE "true"

RECURSIVE ResumeSkipsErrors(_, _, _, _)
ResumeSkipsErrors(fs, ns, cas, i) ==
    IF i >= Len(cas) THEN [at |-> i, what |-> "stop"]
    ELSE IF QueryTest(fs, ns, cas[i + 1]) = "true"
         THEN [at |-> i + 1, what |-> "yield"]
         ELSE ResumeSkipsErrors(fs, ns, cas, i + 1)

\* the generator resumed with i approaches taken from self._approaches: it runs
\* to its next yield, to its end or to an exception:
\* [at: the approaches taken by then, what: "yield" / "stop" / "raise"]
RECURSIVE Resume(_, _, _, _)
Resume(fs, ns, cas, i) ==
    IF i >= Len(cas) THEN [at |-> i, what |-> "stop"]
    ELSE LET t == QueryTest(fs, ns, cas[i + 1])
         IN  IF t = "true" THEN [at |-> i + 1, what |-> "yield"]
             ELSE IF t = "raise" THEN [at |-> i + 1, what |-> "raise"]
             ELSE Resume(fs, ns, cas, i + 1)

\* ---------------------------------------------------------- filters.limit
LimitPullsOneMore(n, count) ==
    IF Truthy(n) THEN count <= n[1] ELSE n # Some(1)

\* whether limit, having yielded count values, asks its iterator for another:
\* range(0, n) when n is truthy, `while n != 1` when it is 0 or None
LimitPulls(n, count) ==
    IF Truthy(n) THEN count < n[1] ELSE n # Some(1)

\* ------------------------------------------------------------ the callers
DesignationArgs == {"a1", "A1", "a", "nan"}
NameArgs == {None, Some(""), Some("Eros"), Some("eros")}

CriteriaNames ==
    { "date", "start_date", "end_date", "distance_min", "distance_max",
      "velocity_min", "velocity_max", "diameter_min", "diameter_max",
      "hazardous" }

\* the values a criterion is given on the command line
CriterionValues(k) ==
    CASE k \in {"date", "end_date"} -> {1}
      [] k = "start_date" -> {2}
      [] k \in {"distance_min", "distance_max", "diameter_max"} -> {0, 5}
      [] k = "velocity_min" -> {0, 20}
      [] k = "velocity_max" -> {0, 10}
      [] k = "diameter_min" -> {0, 20}
      [] k = "hazardous" -> {False, True}

Opt(k) == {None} \cup { Some(v) : v \in CriterionValues(k) }

Criteria ==
    [ date : Opt("date"),
      start_date : Opt("start_date"),
      end_date : Opt("end_date"),
      distance_min : Opt("distance_min"),
      distance_max : Opt("distance_max"),
      velocity_min : Opt("velocity_min"),
      velocity_max : Opt("velocity_max"),
      diameter_min : Opt("diameter_min"),
      diameter_max : Opt("diameter_max"),
      hazardous : Opt("hazardous") ]

\* the criteria given on the command line: the others are None
Given(c) == { k \in CriteriaNames : c[k] # None }

NoCriteria == [k \in CriteriaNames |-> None]

\* the calls that give one criterion, or none, ahead of a query
OneCriterion ==
    {NoCriteria} \cup
    UNION { { [NoCriteria EXCEPT ![k] = v] : v \in Opt(k) } :
            k \in CriteriaNames }

\* filters built by a caller directly from the AttributeFilter subclasses
FilterPool ==
    { Filter("Hazard", "eq", False), Filter("Distance", "le", 0) }

FilterLists == SeqsUpTo(FilterPool, MaxFilters)

Limits == {None} \cup { Some(n) : n \in 0..MaxLimit }

NoRet == [op |-> "none", arg |-> None, val |-> None]
NoCall == [criteria |-> None, result |-> <<>>]
NoGen ==
    [status |-> "none", criteria |-> None, filters |-> <<>>, at |-> 0,
     out |-> <<>>]
NoLimit == [status |-> "none", n |-> None, out |-> <<>>]

Init ==
    /\ neos = <<>>
    /\ approaches = <<>>
    /\ pdes_dict = [x \in {} |-> 0]
    /\ loaded = {}
    /\ db = [status |-> "none", neos |-> {}, approaches |-> <<>>]
    /\ ret = NoRet
    /\ queries = NoCall
    /\ gen = NoGen
    /\ lim = NoLimit
    /\ abandoned = FALSE

load_neos ==
    /\ "neos" \notin loaded
    /\ db.status = "none"
    /\ \E rows \in SeqsUpTo(NeoRows, MaxNeos) :
        /\ neos' = LoadNeosList(rows)
        /\ pdes_dict' = LoadNeosDict(rows, 1, pdes_dict)
    /\ loaded' = loaded \cup {"neos"}
    /\ UNCHANGED <<approaches, db, ret, queries, gen, lim, abandoned>>

load_approaches ==
    /\ "approaches" \notin loaded
    /\ db.status = "none"
    /\ \E data \in SeqsUpTo(CARows, MaxCAs) :
        approaches' = LoadApproachesList(data, pdes_dict)
    /\ loaded' = loaded \cup {"approaches"}
    /\ UNCHANGED <<neos, pdes_dict, db, ret, queries, gen, lim, abandoned>>

\* NEODatabase(neos, approaches)
NEODatabase ==
    /\ loaded = {"neos", "approaches"}
    /\ db.status = "none"
    /\ LET r == LinkLoop(neos, approaches, 1)
       IN  /\ neos' = r.neos
           /\ db' = [status |-> IF r.raised THEN "raised" ELSE "ready",
                     neos |-> 1..Len(neos),
                     approaches |-> [i \in 1..Len(approaches) |-> i]]
    /\ UNCHANGED <<approaches, pdes_dict, loaded, ret, queries, gen, lim,
                   abandoned>>

\* the caller holds no generator
Idle == db.status = "ready" /\ gen.status = "none" /\ lim.status = "none"

GetNeoByDesignation ==
    /\ Idle
    /\ \E d \in DesignationArgs :
        ret' = [op |-> "get_neo_by_designation", arg |-> Some(d),
                val |-> get_neo_by_designation(neos, 1, d)]
    /\ UNCHANGED <<neos, approaches, pdes_dict, loaded, db, queries, gen, lim,
                   abandoned>>

GetNeoByName ==
    /\ Idle
    /\ \E n \in NameArgs :
        ret' = [op |-> "get_neo_by_name", arg |-> n,
                val |-> get_neo_by_name(neos, 1, n)]
    /\ UNCHANGED <<neos, approaches, pdes_dict, loaded, db, queries, gen, lim,
                   abandoned>>

\* create_filters(**criteria)
CreateFilters(C) ==
    \E c \in C : queries' = [criteria |-> Some(c), result |-> create_filters(c)]

\* query(filters): calling a generator function runs none of its body;
\* criteria are create_filters' arguments when the filters are its result
Query(criteria, fs) ==
    /\ gen' = [status |-> "running", criteria |-> criteria, filters |-> fs,
               at |-> 0, out |-> <<>>]
    /\ ret' = [op |-> "query", arg |-> None, val |-> None]
    /\ UNCHANGED <<neos, approaches, pdes_dict, loaded, db, queries, lim,
                   abandoned>>

\* db.query(create_filters(...)), as the main module calls it
QueryCriteria ==
    /\ Idle
    /\ \E c \in OneCriterion : Query(Some(c), create_filters(c))

\* db.query(filters) with filters the caller built, () among them
QueryFilters ==
    /\ Idle
    /\ \E fs \in FilterLists : Query(None, fs)

\* limit(gen, n) on the generator query just returned
Limit ==
    /\ gen.status = "running"
    /\ gen.at = 0
    /\ lim.status = "none"
    /\ \E n \in Limits : lim' = [status |-> "running", n |-> n, out |-> <<>>]
    /\ UNCHANGED <<neos, approaches, pdes_dict, loaded, db, ret, queries, gen,
                   abandoned>>

\* next(gen): the generator after it is resumed
Resumed(g) ==
    LET r == Resume(g.filters, neos, approaches, g.at)
    IN  [g EXCEPT !.at = r.at,
                  !.status = CASE r.what = "yield" -> "running"
                               [] r.what = "stop" -> "done"
                               [] r.what = "raise" -> "raised",
                  !.out = IF r.what = "yield" THEN Append(@, r.at) ELSE @]

NextQueryRelinks ==
    /\ gen.status = "running"
    /\ lim.status = "none"
    /\ gen' = Resumed(gen)
    /\ neos' = IF Len(gen'.out) > Len(gen.out)
                  /\ approaches[gen'.at].neo # None
               THEN AppendApproach(neos, approaches[gen'.at].neo[1], gen'.at)
               ELSE neos
    /\ UNCHANGED <<approaches, pdes_dict, loaded, db, ret, queries, lim,
                   abandoned>>

\* the consumer calls next() on the query generator itself
NextQuery ==
    /\ gen.status = "running"
    /\ lim.status = "none"
    /\ gen' = Resumed(gen)
    /\ UNCHANGED <<neos, approaches, pdes_dict, loaded, db, ret, queries, lim,
                   abandoned>>

NextLimitEager ==
    /\ lim.status = "running"
    /\ gen' = IF gen.status = "running" THEN Resumed(gen) ELSE gen
    /\ lim' = IF ~LimitPulls(lim.n, Len(lim.out))
              THEN [lim EXCEPT !.status = "done"]
              ELSE IF gen'.status = "running" /\ Len(gen'.out) > Len(gen.out)
              THEN [lim EXCEPT !.out = Append(@, gen'.out[Len(gen'.out)])]
              ELSE [lim EXCEPT !.status =
                       IF gen'.status = "raised" /\ gen.status = "running"
                       THEN "raised" ELSE "done"]
    /\ UNCHANGED <<neos, approaches, pdes_dict, loaded, db, ret, queries,
                   abandoned>>

\* the consumer calls next() on the limit generator
NextLimit ==
    /\ lim.status = "running"
    /\ IF LimitPulls(lim.n, Len(lim.out))
       THEN /\ gen' = IF gen.status = "running" THEN Resumed(gen) ELSE gen
            /\ lim' = IF gen'.status = "running" /\ Len(gen'.out) > Len(gen.out)
                      THEN [lim EXCEPT !.out = Append(@, gen'.out[Len(gen'.out)])]
                      ELSE [lim EXCEPT !.status =
                               IF gen'.status = "raised" /\ gen.status = "running"
                               THEN "raised" ELSE "done"]
       ELSE /\ lim' = [lim EXCEPT !.status = "done"]
            /\ gen' = gen
    /\ UNCHANGED <<neos, approaches, pdes_dict, loaded, db, ret, queries,
                   abandoned>>

\* the consumer lets go of its generators; a generator let go while it could
\* still yield is a query abandoned before exhaustion
Discard ==
    /\ gen.status # "none"
    /\ gen' = NoGen
    /\ lim' = NoLimit
    /\ abandoned' = (abandoned \/ gen.status = "running")
    /\ UNCHANGED <<neos, approaches, pdes_dict, loaded, db, ret, queries>>

Next ==
    \/ load_neos
    \/ load_approaches
    \/ NEODatabase
    \/ GetNeoByDesignation
    \/ GetNeoByName
    \/ QueryCriteria
    \/ QueryFilters
    \/ Limit
    \/ NextQuery
    \/ NextLimit
    \/ Discard

Spec == Init /\ [][Next]_vars

\* one call of create_filters on its own, over every combination of criteria
CreateFiltersCall ==
    /\ queries = NoCall
    /\ CreateFilters(Criteria)
    /\ UNCHANGED <<neos, approaches, pdes_dict, loaded, db, ret, gen, lim,
                   abandoned>>

SpecFilters == Init /\ [][CreateFiltersCall]_vars

\* NearEarthObject(**info) called on its own; a keyword that is absent and one
\* that is None are the same to info.get
Infos ==
    [ designation : {None, Some("a1"), Some("")},
      name        : {None, Some(""), Some("Eros")},
      diameter    : {None, Some(NaN), Some(0), Some(5), Some(20)},
      hazardous   : {None, Some(False), Some(True)} ]

NearEarthObjectCall ==
    /\ ret = NoRet
    /\ \E info \in Infos :
        ret' = [op |-> "NearEarthObject", arg |-> Some(info),
                val |-> Some(NearEarthObject(info))]
    /\ UNCHANGED <<neos, approaches, pdes_dict, loaded, db, queries, gen, lim,
                   abandoned>>

SpecModels == Init /\ [][NearEarthObjectCall]_vars

\* query on the collections __init__ stored in self._neos and self._approaches
\* (database.py:44-45), also when the linking loop after them raised: the only
\* Database objects that hold an Approach whose neo is None
Held ==
    /\ db.status \in {"ready", "raised"}
    /\ gen.status = "none"
    /\ lim.status = "none"

QueryCriteriaHeld ==
    /\ Held
    /\ \E c \in OneCriterion : Query(Some(c), create_filters(c))

QueryFiltersHeld ==
    /\ Held
    /\ \E fs \in FilterLists : Query(None, fs)

NextHeld ==
    \/ load_neos
    \/ load_approaches
    \/ NEODatabase
    \/ QueryCriteriaHeld
    \/ QueryFiltersHeld
    \/ Limit
    \/ NextQuery
    \/ NextLimit

SpecQuery == Init /\ [][NextHeld]_vars

\* ------------------------------------------------------------ linking
\* the Objects of the Database whose designation is the Approach's foreign key
Designated(i) ==
    { o \in db.neos : neos[o].designation = approaches[i].designation }

\* the members of the set S of indices among i..n, in increasing order
RECURSIVE SelectIndices(_, _, _)
SelectIndices(n, i, S) ==
    IF i > n THEN <<>>
    ELSE (IF i \in S THEN <<i>> ELSE <<>>) \o SelectIndices(n, i + 1, S)

InSeq(x, s) == \E k \in DOMAIN s : s[k] = x

\* C1: constructing a Database from Objects with empty approaches and
\* Approaches with a null object_ref leaves every Approach's object_ref equal to
\* the Object whose designation is its foreign key when there is one, and null
\* when there is none.  (The constructor never assigns .neo, so the null
\* object_ref of the input is read off the state after the call.)
C1_ConstructorLinksByDesignation ==
    (/\ db.status # "none"
     /\ \A i \in DOMAIN approaches : approaches[i].neo = None)
    => \A i \in DOMAIN approaches :
         IF Designated(i) = {}
         THEN approaches[i].neo = None
         ELSE approaches[i].neo # None /\ approaches[i].neo[1] \in Designated(i)

\* C2: construction never fails on an Approach whose foreign key matches no
\* Object: the constructor completes, the Approach keeps a null object_ref, is
\* in no Object's approaches and is stored in the Database's approaches.
C2_UnmatchedNeverFails ==
    \A i \in DOMAIN approaches :
        (db.status # "none" /\ Designated(i) = {})
        => /\ db.status = "ready"
           /\ approaches[i].neo = None
           /\ \A o \in db.neos : ~InSeq(i, neos[o].approaches)
           /\ InSeq(i, db.approaches)

\* C3: after construction every Object's approaches is exactly the subsequence
\* of the input Approaches whose object_ref is that Object, each once and in
\* input order.
C3_ApproachesAreLinkedSubsequence ==
    db.status = "ready"
    => \A o \in db.neos :
         LET Mine == { i \in DOMAIN approaches : approaches[i].neo = Some(o) }
         IN  neos[o].approaches = SelectIndices(Len(approaches), 1, Mine)

C3_Witness ==
    /\ db.status = "ready"
    /\ Len(neos) = 2
    /\ \E o \in db.neos : neos[o].approaches = <<1, 2>>

\* ------------------------------------------------------------- lookups
\* C4: get_neo_by_designation(d) returns an Object whose designation is exactly
\* d when the Database has one, and None otherwise; it never returns an Object
\* whose designation differs from d, in case or otherwise.
C4_GetByDesignationExact ==
    ret.op = "get_neo_by_designation"
    => IF \E o \in db.neos : neos[o].designation = ret.arg[1]
       THEN ret.val # None /\ neos[ret.val[1]].designation = ret.arg[1]
       ELSE ret.val = None

C4_Witness ==
    /\ ret.op = "get_neo_by_designation"
    /\ ret.arg = Some("a1")
    /\ Len(neos) = 2
    /\ neos[1].designation = "A1"
    /\ ret.val = Some(2)

\* C5: get_neo_by_name(None) and get_neo_by_name("") return None for every
\* Database, also one with Objects whose name is None or "".
C5_NullOrEmptyNameNotFound ==
    (ret.op = "get_neo_by_name" /\ ret.arg \in {None, Some("")})
    => ret.val = None

\* ---------------------------------------------------------------- query
\* the approaches on which every filter of fs evaluates true
Passing(fs) ==
    { i \in DOMAIN approaches :
        \A k \in DOMAIN fs : FilterCall(fs[k], neos, approaches[i]) = "true" }

\* no filter of fs raises on any stored approach
NoFilterRaises(fs) ==
    \A i \in DOMAIN approaches, k \in DOMAIN fs :
        FilterCall(fs[k], neos, approaches[i]) # "raise"

\* C6: query with no filters yields every stored Approach once, in storage
\* order, and then ends: what it has yielded is always the stored Approaches it
\* has passed, and it ends having passed them all.
C6_EmptyFiltersYieldAll ==
    (gen.status \in {"running", "done"} /\ gen.filters = <<>>)
    => /\ gen.out = SubSeq(db.approaches, 1, gen.at)
       /\ gen.status = "done" => gen.out = db.approaches

C6_Witness ==
    /\ gen.status = "done"
    /\ gen.filters = <<>>
    /\ lim.status = "none"
    /\ gen.out = <<1, 2>>

\* C7: with a non-empty list of filters that raise on no Approach, query yields
\* exactly the stored Approaches on which every filter is true, in storage
\* order: what it has yielded is always the passing Approaches among those it
\* has gone through, and it ends having gone through them all.
C7_FiltersAreConjunction ==
    (/\ gen.status \in {"running", "done"}
     /\ gen.filters # <<>>
     /\ NoFilterRaises(gen.filters))
    => /\ gen.out = SelectIndices(gen.at, 1, Passing(gen.filters))
       /\ gen.status = "done"
          => gen.out = SelectIndices(Len(approaches), 1, Passing(gen.filters))

\* the first filter alone would let approach 1 through, the second does not
C7_Witness ==
    /\ gen.status = "done"
    /\ Len(gen.filters) = 2
    /\ Len(approaches) = 2
    /\ FilterCall(gen.filters[1], neos, approaches[1]) = "true"
    /\ FilterCall(gen.filters[2], neos, approaches[1]) = "false"
    /\ gen.out = <<2>>

\* the approaches whose linked Object is not hazardous
NotHazardous ==
    { i \in DOMAIN approaches :
        /\ approaches[i].neo # None
        /\ neos[approaches[i].neo[1]].hazardous = Some(False) }

\* C8: hazardous=False given to create_filters produces a Hazard filter, so the
\* query over the result yields only the Approaches whose linked Object is not
\* hazardous, and not every Approach as when hazardous is left unspecified.
C8_NotHazardousIsAFilter ==
    (/\ gen.status = "done"
     /\ gen.criteria # None
     /\ gen.criteria[1] = [NoCriteria EXCEPT !.hazardous = Some(False)])
    => gen.out = SelectIndices(Len(approaches), 1, NotHazardous)

\* ------------------------------------------------------- create_filters
\* the filter a supplied criterion stands for
FilterOf(k, v) ==
    CASE k = "date" -> Filter("Date", "eq", v)
      [] k = "start_date" -> Filter("Date", "ge", v)
      [] k = "end_date" -> Filter("Date", "le", v)
      [] k = "distance_min" -> Filter("Distance", "ge", v)
      [] k = "distance_max" -> Filter("Distance", "le", v)
      [] k = "velocity_min" -> Filter("Velocity", "ge", v)
      [] k = "velocity_max" -> Filter("Velocity", "le", v)
      [] k = "diameter_min" -> Filter("Diameter", "ge", v)
      [] k = "diameter_max" -> Filter("Diameter", "le", v)
      [] k = "hazardous" -> Filter("Hazard", "eq", v)

\* C9: create_filters returns one filter for each criterion that is not None,
\* falsy values such as 0 included, with the matching kind and comparison, and
\* none for a criterion that is None: as many filters as criteria supplied.
C9_OneFilterPerSuppliedCriterion ==
    queries.criteria # None
    => LET c == queries.criteria[1]
       IN  /\ Len(queries.result) = Cardinality(Given(c))
           /\ \A k \in Given(c) : InSeq(FilterOf(k, c[k][1]), queries.result)

\* ----------------------------------------------------------------- limit
Min(a, b) == IF a <= b THEN a ELSE b

\* the whole sequence the limited query generator has to give
Source == SelectIndices(Len(approaches), 1, Passing(gen.filters))

\* C10: limit(seq, n) with n positive yields the first min(n, len(seq))
\* elements of seq in order and stops; with n 0 or None it yields all of seq.
C10_LimitYieldsFirstN ==
    (lim.status = "done" /\ NoFilterRaises(gen.filters))
    => IF lim.n # None /\ lim.n[1] > 0
       THEN lim.out = SubSeq(Source, 1, Min(lim.n[1], Len(Source)))
       ELSE lim.out = Source

C10_Witness ==
    /\ lim.status = "done"
    /\ lim.n = Some(1)
    /\ Len(Source) = 2
    /\ lim.out = <<Source[1]>>

\* ------------------------------------------------- errors during query
\* a Diameter or Hazard filter of fs is evaluated on approach i, whose neo is
\* None: the filters before it in fs are all true on that approach
NullRefEvaluated(fs, i) ==
    /\ approaches[i].neo = None
    /\ \E k \in DOMAIN fs :
        /\ fs[k].kind \in {"Diameter", "Hazard"}
        /\ \A j \in 1..(k - 1) :
              FilterCall(fs[j], neos, approaches[i]) = "true"

\* C11: when query evaluates a Diameter or Hazard filter on an Approach whose
\* object_ref is null, the error is not swallowed: the generator ends with the
\* error at that Approach, having yielded the passing Approaches before it and
\* neither that Approach nor any after it, and a limit over it ends with the
\* same error.
C11_NullRefErrorPropagates ==
    \A i \in 1..gen.at :
        NullRefEvaluated(gen.filters, i)
        => /\ gen.status = "raised"
           /\ gen.at = i
           /\ ~InSeq(i, gen.out)
           /\ gen.out = SelectIndices(i - 1, 1, Passing(gen.filters))
           /\ lim.status # "none"
              => lim.status = "raised" /\ lim.out = gen.out

C11_Witness ==
    /\ gen.status = "raised"
    /\ gen.at = 2
    /\ gen.out = <<1>>
    /\ approaches[2].neo = None
    /\ \E k \in DOMAIN gen.filters : gen.filters[k].kind = "Hazard"
    /\ lim.status = "none"

\* ------------------------------------------------------ read-only queries
\* C12: once the Database is constructed, no lookup, query or limit step,
\* nor the abandoning of a query, changes the object collection, the approach
\* collection, any Approach's neo or any Object's approaches; and a query run
\* to its end after an abandoned one yields exactly the Approaches its filters
\* pass, in stored order, as a first query does.
C12_QueriesAreReadOnly ==
    /\ [][db.status = "ready"
           => neos' = neos /\ approaches' = approaches /\ db' = db]_vars
    /\ [](abandoned /\ gen.status = "done" => gen.out = Source)

C12_Witness ==
    /\ abandoned
    /\ gen.status = "done"
    /\ Len(gen.out) = 1
    /\ Len(approaches) = 2
    /\ \E o \in DOMAIN neos : neos[o].approaches # <<>>

\* ------------------------------------------------- objects without a name
\* C13: an Object constructed with name None and diameter None is constructed
\* without error, has name None and diameter NaN, and its fullname is its
\* designation alone.
C13_NamelessObject ==
    (ret.op = "NearEarthObject"
     /\ ret.arg[1].name = None
     /\ ret.arg[1].diameter = None)
    => /\ ret.val # None
       /\ ret.val[1].name = None
       /\ ret.val[1].diameter = NaN
       /\ ret.val[1].designation = Str(ret.arg[1].designation)
       /\ fullname(ret.val[1]) = ret.val[1].designation

C13_Witness ==
    /\ ret.op = "NearEarthObject"
    /\ ret.arg[1].name = None
    /\ ret.arg[1].diameter = None
    /\ ret.arg[1].designation = Some("a1")
    /\ fullname(ret.val[1]) = "a1"

\* ---------------------------------------------------------- lazy limit
\* C14: limit never runs ahead of its consumer: at every point the values
\* pulled from the query are exactly the values limit has yielded; with n
\* positive the query has evaluated filters on no Approach stored after the
\* n-th passing one; and when limit has ended, min(n, number of passing
\* Approaches) values have been pulled.
C14_LimitIsLazy ==
    lim.status # "none"
    => /\ gen.out = lim.out
       /\ (Truthy(lim.n) /\ NoFilterRaises(gen.filters))
          => /\ Len(Source) >= lim.n[1] => gen.at <= Source[lim.n[1]]
             /\ lim.status = "done"
                => Len(gen.out) = Min(lim.n[1], Len(Source))

C14_Witness ==
    /\ lim.status = "done"
    /\ lim.n = Some(1)
    /\ gen.status = "running"
    /\ Len(Source) = 2
    /\ gen.out = <<Source[1]>>
    /\ gen.at = Source[1]
    /\ gen.at < Source[2]

====
